---------------------------- MODULE Spec2Model ----------------------------
(***************************************************************************)
(* Order-tracking board (src/App.tsx): the order collection of the         *)
(* document store, the clients' cached projections of it, the record       *)
(* normalizer, the derived (filtered and sorted) view, the inline edit     *)
(* session, the delete confirmation, the invite collection and the         *)
(* registration flow.                                                      *)
(*                                                                         *)
(* JavaScript values are records [t |-> <typeof>, v |-> <payload>], so     *)
(* that a schemaless document may hold a value of any type in any field    *)
(* and String(), truthiness, || and ! are computed as the language does.   *)
(* Text is a TLA+ string; TLC evaluates Len, SubSeq and \o on strings.     *)
(***************************************************************************)
EXTENDS Integers, Sequences, FiniteSets, TLC

VARIABLES
    store,          \* orders collection: document id -> raw record
    orders,         \* per client: useState<Order[]>, the cached projection
    editingCell,    \* per client: the single edit slot, or NoCell
    editValue,      \* per client: the scratch value of the edit slot
    confirmModal,   \* per client: the pending delete confirmation, or NoModal
    isAdding,       \* per client: an addDoc of addOrder is in flight
    pendingAdd,     \* per client: the record handed to that addDoc
    lastOp,         \* what the last handler did (writes sent, console, alert)
    opsLeft,        \* handlers the behaviour may still run
    nextId,         \* documents created so far in the orders collection
    invites,        \* invites collection: document id -> raw record
    users,          \* identities of the identity provider (e-mails)
    reg,            \* per registration flow: position and captured inputs
    inviteList,     \* UserManagementPage: useState<Invite[]>, the cached invites
    nextInvite,     \* documents created so far in the invites collection
    sortState,      \* the board's sort column and direction
    searchTerm,     \* the board's search box
    shown,          \* the rows the Viewer's board renders (filteredAndSortedOrders)
    gate            \* the App component of one browser tab and its identity provider

vars == <<store, orders, editingCell, editValue, confirmModal, isAdding,
          pendingAdd, lastOp, opsLeft, nextId,
          invites, users, reg, inviteList, nextInvite, sortState,
          searchTerm, shown, gate>>

-----------------------------------------------------------------------------
(* JavaScript values *)

Str(s) == [t |-> "string", v |-> s]
Num(n) == [t |-> "number", v |-> n]
Bool(b) == [t |-> "boolean", v |-> b]
Arr(a) == [t |-> "array", v |-> a]
\* A Firestore Timestamp: an object with toDate() and a seconds field.
Timestamp(secs) == [t |-> "timestamp", v |-> secs]
\* A plain object carrying only {seconds}.
SecondsObj(secs) == [t |-> "secondsobj", v |-> secs]
\* The serverTimestamp() sentinel of a write.
ServerTimestamp == [t |-> "servertimestamp", v |-> 0]
Undefined == [t |-> "undefined", v |-> 0]
NaN == [t |-> "nan", v |-> 0]

\* data.field of a record: undefined when the record has no such field.
Get(data, f) == IF f \in DOMAIN data THEN data[f] ELSE Undefined

\* ToBoolean.
Truthy(x) ==
    CASE x.t = "undefined" -> FALSE
      [] x.t = "nan"       -> FALSE
      [] x.t = "boolean"   -> x.v
      [] x.t = "string"    -> x.v # ""
      [] x.t = "number"    -> x.v # 0
      [] OTHER             -> TRUE

\* a || b
Or(a, b) == IF Truthy(a) THEN a ELSE b

\* !a
Not(a) == Bool(~Truthy(a))

\* The characters of a text, one by one.
Chars(s) == [i \in 1..Len(s) |-> SubSeq(s, i, i)] \o <<>>

\* The position of character c in the sequence of characters cs, or 0.
IndexOf(cs, c) ==
    IF \E i \in 1..Len(cs) : cs[i] = c THEN CHOOSE i \in 1..Len(cs) : cs[i] = c ELSE 0

Digits == Chars("0123456789")

Digit(d) == Digits[d + 1]

RECURSIVE NatToString(_)
NatToString(n) == IF n < 10 THEN Digit(n)
                  ELSE NatToString(n \div 10) \o Digit(n % 10)

IntToString(n) == IF n < 0 THEN "-" \o NatToString(-n) ELSE NatToString(n)

RECURSIVE JoinComma(_)
\* String(x): ToString of a value.
RECURSIVE String(_)
String(x) ==
    CASE x.t = "string"    -> x.v
      [] x.t = "number"    -> IntToString(x.v)
      [] x.t = "boolean"   -> IF x.v THEN "true" ELSE "false"
      [] x.t = "undefined" -> "undefined"
      [] x.t = "nan"       -> "NaN"
      [] x.t = "array"     -> JoinComma(x.v)
      [] OTHER             -> "[object Object]"

JoinComma(a) ==
    IF Len(a) = 0 THEN ""
    ELSE LET h == IF Head(a).t = "undefined" THEN "" ELSE String(Head(a))
         IN IF Len(a) = 1 THEN h ELSE h \o "," \o JoinComma(Tail(a))

\* a + b with a string on the left: string concatenation.
Concat(a, b) == Str(String(a) \o String(b))

IsWhiteSpace(c) == c \in {" ", "\t"}

RECURSIVE TrimStart(_)
TrimStart(s) == IF Len(s) > 0 /\ IsWhiteSpace(SubSeq(s, 1, 1))
                THEN TrimStart(SubSeq(s, 2, Len(s))) ELSE s

RECURSIVE TrimEnd(_)
TrimEnd(s) == IF Len(s) > 0 /\ IsWhiteSpace(SubSeq(s, Len(s), Len(s)))
              THEN TrimEnd(SubSeq(s, 1, Len(s) - 1)) ELSE s

\* String.prototype.trim
Trim(s) == TrimEnd(TrimStart(s))

UpperCase == Chars("ABCDEFGHIJKLMNOPQRSTUVWXYZ")
LowerCase == Chars("abcdefghijklmnopqrstuvwxyz")

LowerChar(c) ==
    LET i == IndexOf(UpperCase, c) IN IF i > 0 THEN LowerCase[i] ELSE c

RECURSIVE ToLowerCase(_)
\* String.prototype.toLowerCase
ToLowerCase(s) == IF Len(s) = 0 THEN ""
                  ELSE LowerChar(SubSeq(s, 1, 1)) \o ToLowerCase(SubSeq(s, 2, Len(s)))

\* String.prototype.includes
Includes(s, sub) ==
    \E i \in 1..(Len(s) - Len(sub) + 1) : SubSeq(s, i, i + Len(sub) - 1) = sub

RECURSIVE BeforeT(_)
\* s.split('T')[0]
BeforeT(s) == IF Len(s) = 0 \/ SubSeq(s, 1, 1) = "T" THEN ""
              ELSE SubSeq(s, 1, 1) \o BeforeT(SubSeq(s, 2, Len(s)))

-----------------------------------------------------------------------------
(* Dates.  Time is counted in whole days since 1970-01-01: every date the  *)
(* board handles is a calendar date, and the comparator only uses the sign *)
(* of a difference of two getTime() values.                                *)

Pad2(n) == IF n < 10 THEN "0" \o NatToString(n) ELSE NatToString(n)

Pad4(n) == IF n < 10 THEN "000" \o NatToString(n)
           ELSE IF n < 100 THEN "00" \o NatToString(n)
           ELSE IF n < 1000 THEN "0" \o NatToString(n)
           ELSE NatToString(n)

\* The civil date of a day count (proleptic Gregorian calendar).
CivilFromDays(days) ==
    LET z   == days + 719468
        era == z \div 146097
        doe == z - era * 146097
        yoe == (doe - doe \div 1460 + doe \div 36524 - doe \div 146096) \div 365
        doy == doe - (365 * yoe + yoe \div 4 - yoe \div 100)
        mp  == (5 * doy + 2) \div 153
        d   == doy - (153 * mp + 2) \div 5 + 1
        m   == IF mp < 10 THEN mp + 3 ELSE mp - 9
        y   == yoe + era * 400 + (IF m <= 2 THEN 1 ELSE 0)
    IN [year |-> y, month |-> m, day |-> d]

DaysFromCivil(y0, m, d) ==
    LET y   == IF m <= 2 THEN y0 - 1 ELSE y0
        era == y \div 400
        yoe == y - era * 400
        mp  == IF m > 2 THEN m - 3 ELSE m + 9
        doy == (153 * mp + 2) \div 5 + d - 1
        doe == yoe * 365 + yoe \div 4 - yoe \div 100 + doy
    IN era * 146097 + doe - 719468

\* new Date(seconds * 1000).toISOString().split('T')[0]
ISODateOfSeconds(secs) ==
    LET c == CivilFromDays(secs \div 86400)
    IN Pad4(c.year) \o "-" \o Pad2(c.month) \o "-" \o Pad2(c.day)

IsDigit(c) == IndexOf(Digits, c) > 0

DigitVal(c) == IndexOf(Digits, c) - 1

RECURSIVE ParseNat(_)
ParseNat(s) == IF Len(s) = 0 THEN 0
               ELSE 10 * ParseNat(SubSeq(s, 1, Len(s) - 1))
                    + DigitVal(SubSeq(s, Len(s), Len(s)))

AllDigits(s) == \A i \in 1..Len(s) : IsDigit(SubSeq(s, i, i))

DaysInMonth(y, m) ==
    IF m = 2 THEN (IF (y % 4 = 0 /\ y % 100 # 0) \/ y % 400 = 0 THEN 29 ELSE 28)
    ELSE IF m \in {4, 6, 9, 11} THEN 30 ELSE 31

\* new Date(s).getTime() for the date-only form YYYY-MM-DD, in days; NaN for
\* any other text (an Invalid Date).
GetTime(s) ==
    IF /\ Len(s) = 10
       /\ SubSeq(s, 5, 5) = "-" /\ SubSeq(s, 8, 8) = "-"
       /\ AllDigits(SubSeq(s, 1, 4)) /\ AllDigits(SubSeq(s, 6, 7))
       /\ AllDigits(SubSeq(s, 9, 10))
    THEN LET y == ParseNat(SubSeq(s, 1, 4))
             m == ParseNat(SubSeq(s, 6, 7))
             d == ParseNat(SubSeq(s, 9, 10))
         IN IF m \in 1..12 /\ d \in 1..DaysInMonth(y, m)
            THEN Num(DaysFromCivil(y, m, d)) ELSE NaN
    ELSE NaN

-----------------------------------------------------------------------------
(* Record normalizer: the body of the onSnapshot callback's docs.map.      *)

\* let deliveryDate = ""; if (data.deliveryDate) { ... }
NormalizeDeliveryDate(data) ==
    LET dd == Get(data, "deliveryDate")
    IN IF ~Truthy(dd) THEN ""
       ELSE IF dd.t = "string" THEN BeforeT(dd.v)
       ELSE IF dd.t = "timestamp" THEN ISODateOfSeconds(dd.v)
       ELSE IF dd.t = "secondsobj" /\ dd.v # 0 THEN ISODateOfSeconds(dd.v)
       ELSE ""

\* Array.isArray(data.printType) ? data.printType : (data.technology || [])
RawPrintType(data) ==
    IF Get(data, "printType").t = "array" THEN Get(data, "printType")
    ELSE Or(Get(data, "technology"), Arr(<<>>))

\* rawPrintType.map is not a function: the callback throws a TypeError.
NormalizeThrows(data) == RawPrintType(data).t # "array"

NormalizedFields ==
    {"id", "orderNumber", "clientName", "currentStage", "printType", "deliveryDate"}

LegacyFields == {"jobId", "customer", "jobName", "trackingStage", "technology"}

\* A normalizer that builds the canonical order without spreading the raw
\* record into it.
Normalize_WithoutSpread(id, data) ==
    LET raw == RawPrintType(data).v
    IN [id |-> Str(id),
        orderNumber |-> Str(String(Or(Or(Get(data, "orderNumber"), Get(data, "jobId")),
                                      Str("???")))),
        clientName |-> Str(String(Or(Get(data, "clientName"),
                                     Or(Get(data, "customer"), Str("???"))))),
        currentStage |-> Str(String(Or(Or(Get(data, "currentStage"),
                                          Get(data, "trackingStage")), Str("studio")))),
        printType |-> Arr([i \in 1..Len(raw) |-> Str(String(Or(raw[i], Str(""))))]),
        deliveryDate |-> Str(NormalizeDeliveryDate(data))]

\* The canonical order of one document: { ...data, id, orderNumber, ... }.
Normalize(id, data) ==
    LET orderNumber == String(Or(Or(Get(data, "orderNumber"), Get(data, "jobId")), Str("???")))
        clientNameRaw ==
            Or(Get(data, "clientName"),
               IF Truthy(Get(data, "customer"))
               THEN Concat(Get(data, "customer"),
                           IF Truthy(Get(data, "jobName"))
                           THEN Concat(Str(" / "), Get(data, "jobName"))
                           ELSE Str(""))
               ELSE Str("???"))
        currentStage ==
            String(Or(Or(Get(data, "currentStage"), Get(data, "trackingStage")), Str("studio")))
        raw == RawPrintType(data).v
        printType == [i \in 1..Len(raw) |-> Str(String(Or(raw[i], Str(""))))]
    IN [f \in DOMAIN data \cup NormalizedFields |->
            CASE f = "id"           -> Str(id)
              [] f = "orderNumber"  -> Str(orderNumber)
              [] f = "clientName"   -> Str(String(clientNameRaw))
              [] f = "currentStage" -> Str(currentStage)
              [] f = "printType"    -> Arr(printType)
              [] f = "deliveryDate" -> Str(NormalizeDeliveryDate(data))
              [] OTHER              -> data[f]]

-----------------------------------------------------------------------------
(* Constants of the program *)

TECH_DIGITAL == "digital"
TECH_OFFSET == "offset"
STAGE_ORDER == <<"studio", "print", "bookbinding", "completed">>
DEFAULT_PRINT_TYPES_INITIAL == <<>>

Stages == {STAGE_ORDER[i] : i \in 1..Len(STAGE_ORDER)}
Techs == {TECH_DIGITAL, TECH_OFFSET}
EditableFields == {"orderNumber", "clientName", "deliveryDate", "notes"}

-----------------------------------------------------------------------------
(* Bounds of the model *)

\* Handlers run in one behaviour of the board.
MaxOps == 2
\* Handlers run in one behaviour of the inline editor beside deletions.
MaxEditOps == 4
\* Documents ever created in the invites collection.
MaxInvites == 2
\* Documents of the orders collection the sorted view is computed over.
MaxViewOrders == 3
\* Documents ever created in the orders collection (ids are never reused).
MaxOrders == 2

Clients == {"c1", "c2"}
\* The client whose rendered table is followed.
Viewer == "c1"

DocId(i) == "o" \o NatToString(i)

\* What a user types into an open text cell, and picks in an open date cell.
EditInputs == {"", "  ", "Nova"}
DateInputs == {"", "2024-06-01"}

\* What a user has typed into the creation form when pressing the add button.
\* <<order number, client name, delivery date>>
FormTexts ==
    {<<"8 ", " Y", "2024-05-09">>, <<"  ", " Y", "2024-05-09">>,
     <<"8 ", "", "2024-05-09">>, <<"8 ", " Y", "">>}

Null == [null |-> TRUE]

-----------------------------------------------------------------------------
(* Array helpers *)

SeqToSet(a) == {a[i] : i \in 1..Len(a)}

\* Array.prototype.includes
ArrIncludes(a, x) == \E i \in 1..Len(a) : a[i] = x

\* Array.prototype.filter(t => t !== x)
RECURSIVE Without(_, _)
Without(a, x) == IF Len(a) = 0 THEN <<>>
                 ELSE IF Head(a) = x THEN Without(Tail(a), x)
                 ELSE <<Head(a)>> \o Without(Tail(a), x)

\* The characters of the model's texts in code-unit order, the order
\* Array.prototype.sort() uses by default.
CodeUnits == Chars(" -/0123456789?ABCDEFGHIJKLMNOPQRSTUVWXYZabcdefghijklmnopqrstuvwxyz")

CodeOf(c) == LET i == IndexOf(CodeUnits, c) IN IF i > 0 THEN i ELSE Len(CodeUnits) + 1

RECURSIVE StrLess(_, _)
StrLess(a, b) ==
    IF Len(b) = 0 THEN FALSE
    ELSE IF Len(a) = 0 THEN TRUE
    ELSE LET ca == CodeOf(SubSeq(a, 1, 1))
             cb == CodeOf(SubSeq(b, 1, 1))
         IN IF ca # cb THEN ca < cb
            ELSE StrLess(SubSeq(a, 2, Len(a)), SubSeq(b, 2, Len(b)))

\* Array.from(new Set(a)).sort() on an array of strings.
RECURSIVE SortedStrings(_)
SortedStrings(S) ==
    IF S = {} THEN <<>>
    ELSE LET m == CHOOSE x \in S : \A y \in S \ {x} : StrLess(x, y)
         IN <<m>> \o SortedStrings(S \ {m})

UniqueSorted(a) == SortedStrings(SeqToSet(a))

\* setNewPrintTypes updater of toggleNewPrintType.
ToggleNewPrintType(currentTypes, tech) ==
    IF ArrIncludes(currentTypes, tech) THEN Without(currentTypes, tech)
    ELSE UniqueSorted(currentTypes \o <<tech>>)

\* The values newPrintTypes takes: DEFAULT_PRINT_TYPES_INITIAL and what the two
\* technology buttons of the creation form make of it.
NewPrintTypesValues ==
    LET step(S) == S \cup {ToggleNewPrintType(x, t) : x \in S, t \in Techs}
    IN step(step({DEFAULT_PRINT_TYPES_INITIAL}))

-----------------------------------------------------------------------------
(* The document store (Firestore), as the client uses it *)

ServerTime == Timestamp(1715299200)

\* updateDoc(ref, data): a partial update merges the given fields.
MergeFields(doc, data) ==
    [f \in DOMAIN doc \cup DOMAIN data |-> IF f \in DOMAIN data THEN data[f] ELSE doc[f]]

\* The record a created document holds: serverTimestamp() is resolved.
Stored(data) ==
    [f \in DOMAIN data |-> IF data[f] = ServerTimestamp THEN ServerTime ELSE data[f]]

RemoveDoc(coll, id) == [i \in DOMAIN coll \ {id} |-> coll[i]]

\* snapshot.docs of the orders query: the documents in id order.
SnapshotIds(coll) == SortedStrings(DOMAIN coll)

\* const parsedOrders = snapshot.docs.map(...)
ParsedOrders(coll) ==
    LET ids == SnapshotIds(coll)
    IN [i \in 1..Len(ids) |-> Normalize(ids[i], coll[ids[i]])]

-----------------------------------------------------------------------------
(* Handlers of PrintOrderTracker: what each computes *)

\* isValidOrder() over the creation form's state.
IsValidOrder(form) ==
    /\ Len(Trim(form.newOrderNumber)) > 0
    /\ Len(Trim(form.newClientName)) > 0
    /\ Len(form.newDeliveryDate) > 0
    /\ GetTime(form.newDeliveryDate) # NaN
    /\ Len(form.newPrintTypes) > 0

\* const newOrder = { ... } of addOrder.
NewOrder(form) ==
    [orderNumber  |-> Str(Trim(form.newOrderNumber)),
     clientName   |-> Str(Trim(form.newClientName)),
     deliveryDate |-> Str(form.newDeliveryDate),
     currentStage |-> Str("studio"),
     isCompleted  |-> Bool(FALSE),
     isUrgent     |-> Bool(FALSE),
     printType    |-> Arr([i \in 1..Len(form.newPrintTypes) |-> Str(form.newPrintTypes[i])]),
     notes        |-> Str(""),
     createdAt    |-> ServerTimestamp]

\* The partial update of toggleUrgency(orderId, currentUrgency).
ToggleUrgencyData(currentUrgency) == [isUrgent |-> Not(currentUrgency)]

\* togglePrintTechnology without its guard on the last remaining tag.
TogglePrintTechnologyData_RemovesLast(currentTypes, tech) ==
    LET types == [i \in 1..Len(currentTypes.v) |-> currentTypes.v[i].v]
        sorted(newTypes) == LET u == UniqueSorted(newTypes)
                            IN Arr([i \in 1..Len(u) |-> Str(u[i])])
    IN IF ArrIncludes(types, tech)
       THEN <<[printType |-> sorted(Without(types, tech))]>>
       ELSE <<[printType |-> sorted(types \o <<tech>>)]>>

\* The partial updates togglePrintTechnology(orderId, currentTypes, tech)
\* sends: none when tech is the only remaining tag.
TogglePrintTechnologyData(currentTypes, tech) ==
    LET types == [i \in 1..Len(currentTypes.v) |-> currentTypes.v[i].v]
        isPresent == ArrIncludes(types, tech)
        sorted(newTypes) == LET u == UniqueSorted(newTypes)
                            IN Arr([i \in 1..Len(u) |-> Str(u[i])])
    IN IF isPresent
       THEN IF Len(types) > 1
            THEN <<[printType |-> sorted(Without(types, tech))]>>
            ELSE <<>>
       ELSE <<[printType |-> sorted(types \o <<tech>>)]>>

\* updateStage that does not clear the urgency of a completed order.
UpdateStageData_KeepsUrgency(stage) ==
    IF stage = "completed"
    THEN [currentStage |-> Str("completed"), isCompleted |-> Bool(TRUE)]
    ELSE [currentStage |-> Str(stage), isCompleted |-> Bool(FALSE)]

\* updateData of updateStage(orderId, stage).
UpdateStageData(stage) ==
    IF stage = "completed"
    THEN [currentStage |-> Str("completed"), isCompleted |-> Bool(TRUE),
          isUrgent |-> Bool(FALSE)]
    ELSE [currentStage |-> Str(stage), isCompleted |-> Bool(FALSE)]

\* updateOrderField that tests the scratch value without trimming it.
UpdateOrderFieldData_NoTrim(field, value) ==
    IF field # "notes" /\ ~Truthy(Str(value))
    THEN <<>>
    ELSE <<[f \in {field} |-> Str(value)]>>

\* updateOrderField that rejects a blank scratch value for notes as well.
UpdateOrderFieldData_NotesRejected(field, value) ==
    IF ~Truthy(Str(Trim(value)))
    THEN <<>>
    ELSE <<[f \in {field} |-> Str(value)]>>

\* The partial updates updateOrderField(orderId, field) sends for a scratch value.
UpdateOrderFieldData(field, value) ==
    IF field # "notes" /\ ~Truthy(Str(Trim(value)))
    THEN <<>>
    ELSE <<[f \in {field} |-> Str(value)]>>

\* The value a cell's click handler passes to startEditing.
CellValue(order, field) ==
    CASE field = "orderNumber"  -> Or(Get(order, "orderNumber"), Str("")).v
      [] field = "clientName"   -> Get(order, "clientName").v
      [] field = "deliveryDate" -> Get(order, "deliveryDate").v
      [] field = "notes"        -> Or(Get(order, "notes"), Str("")).v

\* Whether the row of `order` renders the clickable text of `field` (and not
\* the input that replaces it while the cell is being edited).
CellTextRendered(cell, order, field) ==
    IF field \in {"orderNumber", "clientName"}
    THEN ~(cell # Null /\ cell.orderId = order.id.v
           /\ cell.field \in {"orderNumber", "clientName"})
    ELSE ~(cell # Null /\ cell.orderId = order.id.v /\ cell.field = field)


\* Whether some row renders the input of the open cell.
InputRendered(cell, cached) ==
    /\ cell # Null
    /\ cell.field \in EditableFields
    /\ \E i \in 1..Len(cached) : cached[i].id.v = cell.orderId

\* The open cell's input holds the focus while it is rendered: it takes it
\* when it mounts (autoFocus), and a click anywhere else on the page blurs it
\* first, which calls updateOrderField.
InputFocused(c) == InputRendered(editingCell[c], orders[c])

-----------------------------------------------------------------------------
(* The derived view: filteredAndSortedOrders *)

\* Collation of the 'cs' locale over the characters the board's names use:
\* space and punctuation before digits before letters, case ignored at the
\* first level, "ch" a letter of its own between h and i; at equal letters
\* lower case sorts before upper case.
CollationOrder == Chars(" -?/0123456789abcdefghijklmnopqrstuvwxyz")

LetterWeight(c) ==
    LET i == IndexOf(CollationOrder, c)
    IN IF i > 0 THEN 2 * i ELSE 2 * Len(CollationOrder) + 2

RECURSIVE CollationKey(_)
CollationKey(s) ==
    IF Len(s) = 0 THEN <<>>
    ELSE IF Len(s) >= 2 /\ ToLowerCase(SubSeq(s, 1, 2)) = "ch"
    THEN <<LetterWeight("h") + 1>> \o CollationKey(SubSeq(s, 3, Len(s)))
    ELSE <<LetterWeight(ToLowerCase(SubSeq(s, 1, 1)))>> \o CollationKey(SubSeq(s, 2, Len(s)))

RECURSIVE CompareKeys(_, _)
CompareKeys(k, l) ==
    IF Len(k) = 0 /\ Len(l) = 0 THEN 0
    ELSE IF Len(k) = 0 THEN -1
    ELSE IF Len(l) = 0 THEN 1
    ELSE IF Head(k) < Head(l) THEN -1
    ELSE IF Head(k) > Head(l) THEN 1
    ELSE CompareKeys(Tail(k), Tail(l))

RECURSIVE CompareCase(_, _)
CompareCase(a, b) ==
    IF Len(a) = 0 \/ Len(b) = 0 THEN 0
    ELSE LET x == SubSeq(a, 1, 1)
             y == SubSeq(b, 1, 1)
         IN IF x = y THEN CompareCase(SubSeq(a, 2, Len(a)), SubSeq(b, 2, Len(b)))
            ELSE IF x = ToLowerCase(x) THEN -1 ELSE 1

\* a.localeCompare(b, 'cs')
LocaleCompare(a, b) ==
    LET first == CompareKeys(CollationKey(a), CollationKey(b))
    IN IF first # 0 THEN first ELSE CompareCase(a, b)

\* A comparator whose stage branch puts the orders of the column's stage last.
Compare_StageLast(a, b, sort) ==
    LET mult == IF sort.direction = "asc" THEN 1 ELSE -1
        one(cond) == IF cond THEN 1 ELSE 0
        bothOpen == ~Truthy(Get(a, "isCompleted")) /\ ~Truthy(Get(b, "isCompleted"))
    IN IF bothOpen /\ Truthy(Get(a, "isUrgent")) /\ ~Truthy(Get(b, "isUrgent"))
       THEN Num(-1)
       ELSE IF bothOpen /\ ~Truthy(Get(a, "isUrgent")) /\ Truthy(Get(b, "isUrgent"))
       THEN Num(1)
       ELSE IF sort.column = "clientName"
       THEN Num(LocaleCompare(a.clientName.v, String(Or(b.clientName, Str("")))) * mult)
       ELSE IF sort.column = "deliveryDate"
       THEN LET dateA == GetTime(String(Or(a.deliveryDate, Str("2999-01-01"))))
                dateB == GetTime(String(Or(b.deliveryDate, Str("2999-01-01"))))
            IN IF dateA = NaN \/ dateB = NaN THEN NaN
               ELSE Num((dateA.v - dateB.v) * mult)
       ELSE IF ArrIncludes(STAGE_ORDER, sort.column)
       THEN IF sort.column = "completed"
            THEN Num((one(Truthy(Get(a, "isCompleted")))
                        - one(Truthy(Get(b, "isCompleted")))) * mult)
            ELSE Num((one(a.currentStage.v = sort.column)
                        - one(b.currentStage.v = sort.column)) * mult)
       ELSE Num(0)

\* The comparator applySorting hands to sort, for sortState `sort`.
Compare(a, b, sort) ==
    LET mult == IF sort.direction = "asc" THEN 1 ELSE -1
        one(cond) == IF cond THEN 1 ELSE 0
        bothOpen == ~Truthy(Get(a, "isCompleted")) /\ ~Truthy(Get(b, "isCompleted"))
    IN IF bothOpen /\ Truthy(Get(a, "isUrgent")) /\ ~Truthy(Get(b, "isUrgent"))
       THEN Num(-1)
       ELSE IF bothOpen /\ ~Truthy(Get(a, "isUrgent")) /\ Truthy(Get(b, "isUrgent"))
       THEN Num(1)
       ELSE IF sort.column = "clientName"
       THEN Num(LocaleCompare(a.clientName.v, String(Or(b.clientName, Str("")))) * mult)
       ELSE IF sort.column = "deliveryDate"
       THEN LET dateA == GetTime(String(Or(a.deliveryDate, Str("2999-01-01"))))
                dateB == GetTime(String(Or(b.deliveryDate, Str("2999-01-01"))))
            IN IF dateA = NaN \/ dateB = NaN THEN NaN
               ELSE Num((dateA.v - dateB.v) * mult)
       ELSE IF ArrIncludes(STAGE_ORDER, sort.column)
       THEN IF sort.column = "completed"
            THEN Num((one(Truthy(Get(a, "isCompleted")))
                        - one(Truthy(Get(b, "isCompleted")))) * mult)
            ELSE Num((one(a.currentStage.v # sort.column)
                        - one(b.currentStage.v # sort.column)) * mult)
       ELSE Num(0)

\* The number Array.prototype.sort makes of the comparator's result: NaN
\* counts as +0.
CallCompare(a, b, sort) ==
    LET v == Compare(a, b, sort) IN IF v = NaN THEN 0 ELSE v.v

\* The comparator's results on every pair of elements of data, as the
\* sequence of rows: the engines below sort positions 1..Len(data) and look
\* the results up here.
CompareTable(data, sort) ==
    LET n == Len(data)
    IN [k \in 1..(n * n) |->
            CallCompare(data[((k - 1) \div n) + 1], data[((k - 1) % n) + 1], sort)] \o <<>>

Order(table, n, i, j) == table[(i - 1) * n + j]

\* [...data].sort(comparator) in V8: for fewer than 64 elements, the first
\* run is counted (and reversed when strictly descending), then the rest is
\* added by binary insertion.
RECURSIVE RunEnd(_, _, _, _, _)
RunEnd(a, idx, descending, table, n) ==
    IF idx > Len(a) THEN Len(a)
    ELSE LET order == Order(table, n, a[idx], a[idx - 1])
         IN IF (descending /\ order >= 0) \/ (~descending /\ order < 0)
            THEN idx - 1
            ELSE RunEnd(a, idx + 1, descending, table, n)

Reverse(a) == [i \in 1..Len(a) |-> a[Len(a) + 1 - i]]

CountAndMakeRun(a, table, n) ==
    LET descending == Order(table, n, a[2], a[1]) < 0
        runLength == RunEnd(a, 3, descending, table, n)
    IN [runLength |-> runLength,
        array |-> IF descending
                  THEN Reverse(SubSeq(a, 1, runLength)) \o SubSeq(a, runLength + 1, Len(a))
                  ELSE a]

\* The insertion point of pivot in a[left+1..right] (indices from 0, as V8).
RECURSIVE BinarySearch(_, _, _, _, _, _)
BinarySearch(a, pivot, left, right, table, n) ==
    IF left >= right THEN left
    ELSE LET mid == left + ((right - left) \div 2)
         IN IF Order(table, n, pivot, a[mid + 1]) < 0
            THEN BinarySearch(a, pivot, left, mid, table, n)
            ELSE BinarySearch(a, pivot, mid + 1, right, table, n)

RECURSIVE BinaryInsertionSort(_, _, _, _)
BinaryInsertionSort(a, start, table, n) ==
    IF start >= Len(a) THEN a
    ELSE LET pivot == a[start + 1]
             left == BinarySearch(a, pivot, 0, start, table, n)
             moved == SubSeq(a, 1, left) \o <<pivot>> \o SubSeq(a, left + 1, start)
                        \o SubSeq(a, start + 2, Len(a))
         IN BinaryInsertionSort(moved, start + 1, table, n)

ArrayTimSort(a, table, n) ==
    IF Len(a) < 2 THEN a
    ELSE LET run == CountAndMakeRun(a, table, n)
         IN BinaryInsertionSort(run.array, run.runLength, table, n)

\* The same call in JavaScriptCore: bottom-up merge sort; the right element
\* goes first only when it compares below the left one.
RECURSIVE Merge(_, _, _, _)
Merge(left, right, table, n) ==
    IF Len(right) = 0 THEN left
    ELSE IF Len(left) = 0 THEN right
    ELSE IF Order(table, n, right[1], left[1]) < 0
    THEN <<right[1]>> \o Merge(left, Tail(right), table, n)
    ELSE <<left[1]>> \o Merge(Tail(left), right, table, n)

RECURSIVE MergePass(_, _, _, _)
MergePass(a, width, table, n) ==
    IF Len(a) <= width THEN a
    ELSE LET rightEnd == IF 2 * width < Len(a) THEN 2 * width ELSE Len(a)
         IN Merge(SubSeq(a, 1, width), SubSeq(a, width + 1, rightEnd), table, n)
              \o MergePass(SubSeq(a, rightEnd + 1, Len(a)), width, table, n)

RECURSIVE MergeSort(_, _, _, _)
MergeSort(a, width, table, n) ==
    IF width >= Len(a) THEN a
    ELSE MergeSort(MergePass(a, width, table, n), 2 * width, table, n)

\* The same call in SpiderMonkey, which sorts short arrays by insertion from
\* the right end of the sorted prefix.
RECURSIVE InsertionPoint(_, _, _, _, _)
InsertionPoint(a, item, j, table, n) ==
    IF j < 1 THEN j
    ELSE IF Order(table, n, a[j], item) <= 0 THEN j
    ELSE InsertionPoint(a, item, j - 1, table, n)

RECURSIVE InsertionSort(_, _, _, _)
InsertionSort(a, i, table, n) ==
    IF i > Len(a) THEN a
    ELSE LET j == InsertionPoint(a, a[i], i - 1, table, n)
             moved == SubSeq(a, 1, j) \o <<a[i]>> \o SubSeq(a, j + 1, i - 1)
                        \o SubSeq(a, i + 1, Len(a))
         IN InsertionSort(moved, i + 1, table, n)

\* applySorting(data): what the engines the page runs in return.  They agree
\* whenever the comparator is consistent on data.
ApplySorting(data, sort) ==
    LET n == Len(data)
        table == CompareTable(data, sort)
        positions == [i \in 1..n |-> i] \o <<>>
        sorted == {ArrayTimSort(positions, table, n), MergeSort(positions, 1, table, n),
                   InsertionSort(positions, 2, table, n)}
    IN {[i \in 1..n |-> data[perm[i]]] \o <<>> : perm \in sorted}

\* (x || "").toLowerCase() and String(x || "").toLowerCase()
LowerText(x) == ToLowerCase(String(Or(x, Str(""))))

\* The predicate of orders.filter in filteredAndSortedOrders.
MatchesSearch(order, term) ==
    LET lowerCaseSearchTerm == ToLowerCase(term)
        printType == IF Get(order, "printType").t = "array" THEN order.printType.v ELSE <<>>
    IN \/ lowerCaseSearchTerm = ""
       \/ Includes(LowerText(Get(order, "clientName")), lowerCaseSearchTerm)
       \/ Includes(LowerText(Get(order, "notes")), lowerCaseSearchTerm)
       \/ Includes(LowerText(Get(order, "orderNumber")), lowerCaseSearchTerm)
       \/ Includes(LowerText(Get(order, "jobId")), lowerCaseSearchTerm)
       \/ Includes(LowerText(Get(order, "customer")), lowerCaseSearchTerm)
       \/ \E i \in 1..Len(printType) : Includes(LowerText(printType[i]), lowerCaseSearchTerm)

\* filteredAndSortedOrders, for the given orders, searchTerm and sortState.
FilteredAndSortedOrders(cached, term, sort) ==
    ApplySorting(SelectSeq(cached, LAMBDA order : MatchesSearch(order, term)), sort)

\* The sortState handleSort(column) sets.
HandleSortState(prev, column) ==
    IF prev.column = column
    THEN [column |-> column, direction |-> IF prev.direction = "asc" THEN "desc" ELSE "asc"]
    ELSE [column |-> column, direction |-> "asc"]

-----------------------------------------------------------------------------
(* The board: state after construction *)

\* An order as addOrder of some client stored it earlier.
CanonicalDoc ==
    [orderNumber  |-> Str("7"),
     clientName   |-> Str("X"),
     deliveryDate |-> Str("2024-05-10"),
     currentStage |-> Str("print"),
     isCompleted  |-> Bool(FALSE),
     isUrgent     |-> Bool(TRUE),
     printType    |-> Arr(<<Str("digital"), Str("offset")>>),
     notes        |-> Str("rush"),
     createdAt    |-> ServerTime]

\* A record of the legacy system, carrying only its own field names.
LegacyDoc ==
    [jobId         |-> Str("J1"),
     customer      |-> Str("ACME"),
     jobName       |-> Str("Flyer"),
     trackingStage |-> Str("completed"),
     technology    |-> Arr(<<Str("offset")>>)]

EmptyCollection == [i \in {} |-> Null]

\* The orders collection the clients find when they mount.
InitStores ==
    {EmptyCollection} \cup {DocId(1) :> d : d \in {CanonicalDoc, LegacyDoc}}

\* The record of one step: the handler, its client and order, what it was
\* given, the backend calls it made, how they ended ("none": no call,
\* "pending", "ok", "failed"), the stored record a write met, and whether the
\* handler wrote to the console and raised an alert().
Op(name, c, id, arg, sent, outcome, logged, alerted) ==
    [op |-> name, client |-> c, id |-> id, arg |-> arg, sent |-> sent,
     outcome |-> outcome, before |-> Null, logged |-> logged, alerted |-> alerted]

NoOp == Op("none", "", "", Null, <<>>, "none", FALSE, FALSE)

DocOrNull(coll, id) == IF id \in DOMAIN coll THEN coll[id] ELSE Null

\* Every client has just mounted the board.
BoardIdle ==
    /\ nextId = Cardinality(DOMAIN store)
    /\ orders = [c \in Clients |-> <<>>]
    /\ editingCell = [c \in Clients |-> Null]
    /\ editValue = [c \in Clients |-> ""]
    /\ confirmModal = [c \in Clients |-> Null]
    /\ isAdding = [c \in Clients |-> FALSE]
    /\ pendingAdd = [c \in Clients |-> Null]
    /\ lastOp = NoOp

InitBoard == store \in InitStores /\ BoardIdle

viewVars == <<sortState, searchTerm, shown>>
inviteVars == <<invites, users, reg, inviteList, nextInvite>>
boardVars == <<store, orders, editingCell, editValue, confirmModal, isAdding,
               pendingAdd, lastOp, opsLeft, nextId>>

-----------------------------------------------------------------------------
(* The board: actions *)

\* The onSnapshot callback of the orders subscription: setOrders(parsedOrders).
\* A record whose technology is no array makes the callback throw before
\* setOrders is reached.
Snapshot(c) ==
    /\ \A id \in DOMAIN store : ~NormalizeThrows(store[id])
    /\ LET parsedOrders == ParsedOrders(store)
       IN /\ orders[c] # parsedOrders
          /\ orders' = [orders EXCEPT ![c] = parsedOrders]
          /\ IF c = Viewer
             THEN shown' \in FilteredAndSortedOrders(parsedOrders, searchTerm, sortState)
             ELSE UNCHANGED shown
    /\ lastOp' = Op("snapshot", c, "", Null, <<>>, "none", FALSE, FALSE)
    /\ UNCHANGED <<store, editingCell, editValue, confirmModal, isAdding,
                   pendingAdd, opsLeft, nextId,
                   sortState, searchTerm, inviteVars, gate>>

\* updateOrder(orderId, data) for each element of `writes` (none or one):
\* await updateDoc, which rejects when the document is gone or the backend
\* refuses; the rejection is caught and logged.
UpdateOrder(c, name, id, arg, writes, ok) ==
    LET succeeded == ok /\ id \in DOMAIN store
    IN IF Len(writes) = 0
       THEN /\ lastOp' = Op(name, c, id, arg, <<>>, "none", FALSE, FALSE)
            /\ UNCHANGED store
       ELSE /\ store' = IF succeeded
                        THEN [store EXCEPT ![id] = MergeFields(@, writes[1])]
                        ELSE store
            /\ lastOp' = [Op(name, c, id, arg,
                               <<[kind |-> "update", id |-> id, data |-> writes[1]]>>,
                               IF succeeded THEN "ok" ELSE "failed",
                               ~succeeded, FALSE)
                            EXCEPT !.before = DocOrNull(store, id)]

\* addOrder up to its await: the guard, setIsAdding(true), addDoc sent.
AddOrder(c) ==
    \E txt \in FormTexts, p \in NewPrintTypesValues :
        LET form == [newOrderNumber |-> txt[1], newClientName |-> txt[2],
                     newDeliveryDate |-> txt[3], newPrintTypes |-> p]
            typed == [newOrderNumber |-> txt[1], newClientName |-> txt[2]]
        IN /\ opsLeft > 0
           /\ ~InputFocused(c)
           /\ opsLeft' = opsLeft - 1
           /\ IF ~IsValidOrder(form) \/ isAdding[c]
              THEN /\ lastOp' = Op("addOrder", c, "", typed, <<>>, "none", FALSE, FALSE)
                   /\ UNCHANGED <<isAdding, pendingAdd>>
              ELSE /\ nextId + Cardinality({x \in Clients : isAdding[x]}) < MaxOrders
                   /\ isAdding' = [isAdding EXCEPT ![c] = TRUE]
                   /\ pendingAdd' = [pendingAdd EXCEPT ![c] = NewOrder(form)]
                   /\ lastOp' = Op("addOrder", c, "", typed,
                                   <<[kind |-> "add", id |-> "", data |-> NewOrder(form)]>>,
                                   "pending", FALSE, FALSE)
           /\ UNCHANGED <<store, orders, editingCell, editValue, confirmModal, nextId, viewVars, inviteVars, gate>>

\* addOrder after its await: the document exists and the form is reset, or
\* the rejection is logged and alerted; finally setIsAdding(false).
AddOrderSettled(c) ==
    /\ isAdding[c]
    /\ \E ok \in BOOLEAN :
        /\ IF ok
           THEN /\ store' = store @@ (DocId(nextId + 1) :> Stored(pendingAdd[c]))
                /\ nextId' = nextId + 1
           ELSE UNCHANGED <<store, nextId,
                   viewVars, inviteVars, gate>>
        /\ lastOp' = Op("addOrderSettled", c, IF ok THEN DocId(nextId + 1) ELSE "",
                        Null, <<>>, IF ok THEN "ok" ELSE "failed", ~ok, ~ok)
    /\ isAdding' = [isAdding EXCEPT ![c] = FALSE]
    /\ pendingAdd' = [pendingAdd EXCEPT ![c] = Null]
    /\ UNCHANGED <<orders, editingCell, editValue, confirmModal, opsLeft,
                   viewVars, inviteVars, gate>>

\* An urgency button that also patches the cached row at once.
ToggleUrgency_UpdatesCache(c) ==
    \E i \in 1..Len(orders[c]), ok \in BOOLEAN :
        LET order == orders[c][i]
            currentUrgency == Get(order, "isUrgent")
        IN /\ opsLeft > 0
           /\ ~InputFocused(c)
           /\ opsLeft' = opsLeft - 1
           /\ UpdateOrder(c, "toggleUrgency", order.id.v,
                          [currentUrgency |-> currentUrgency],
                          <<ToggleUrgencyData(currentUrgency)>>, ok)
           /\ orders' = [orders EXCEPT ![c][i] =
                            MergeFields(@, ToggleUrgencyData(currentUrgency))]
           /\ UNCHANGED <<editingCell, editValue, confirmModal, isAdding,
                          pendingAdd, nextId, viewVars, inviteVars, gate>>

\* The urgency button of a row: toggleUrgency(order.id, order.isUrgent).
ToggleUrgency(c) ==
    \E i \in 1..Len(orders[c]), ok \in BOOLEAN :
        LET order == orders[c][i]
            currentUrgency == Get(order, "isUrgent")
        IN /\ opsLeft > 0
           /\ ~InputFocused(c)
           /\ opsLeft' = opsLeft - 1
           /\ UpdateOrder(c, "toggleUrgency", order.id.v,
                          [currentUrgency |-> currentUrgency],
                          <<ToggleUrgencyData(currentUrgency)>>, ok)
           /\ UNCHANGED <<orders, editingCell, editValue, confirmModal, isAdding,
                          pendingAdd, nextId,
                   viewVars, inviteVars, gate>>

\* A technology button of a row:
\* togglePrintTechnology(order.id, order.printType, tech).
TogglePrintTechnology(c) ==
    \E i \in 1..Len(orders[c]), tech \in Techs, ok \in BOOLEAN :
        LET order == orders[c][i]
        IN /\ opsLeft > 0
           /\ ~InputFocused(c)
           /\ opsLeft' = opsLeft - 1
           /\ UpdateOrder(c, "togglePrintTechnology", order.id.v,
                          [currentTypes |-> order.printType, tech |-> tech],
                          TogglePrintTechnologyData(order.printType, tech), ok)
           /\ UNCHANGED <<orders, editingCell, editValue, confirmModal, isAdding,
                          pendingAdd, nextId,
                   viewVars, inviteVars, gate>>

\* A stage button of a row: updateStage(order.id, stage).
UpdateStage(c) ==
    \E i \in 1..Len(orders[c]), stage \in Stages, ok \in BOOLEAN :
        LET order == orders[c][i]
        IN /\ opsLeft > 0
           /\ ~InputFocused(c)
           /\ opsLeft' = opsLeft - 1
           /\ UpdateOrder(c, "updateStage", order.id.v, [stage |-> stage],
                          <<UpdateStageData(stage)>>, ok)
           /\ UNCHANGED <<orders, editingCell, editValue, confirmModal, isAdding,
                          pendingAdd, nextId,
                   viewVars, inviteVars, gate>>

\* startEditing that first commits the scratch value of the cell it leaves.
StartEditing_CommitsPrevious(c) ==
    \E i \in 1..Len(orders[c]), field \in EditableFields :
        LET order == orders[c][i]
            value == CellValue(order, field)
            prev == editingCell[c]
            data == [f \in {prev.field} |-> Str(editValue[c])]
            arg == [field |-> field, value |-> value,
                    prevCell |-> prev, prevValue |-> editValue[c]]
        IN /\ opsLeft > 0
           /\ ~InputFocused(c)
           /\ opsLeft' = opsLeft - 1
           /\ CellTextRendered(editingCell[c], order, field)
           /\ editingCell' = [editingCell EXCEPT ![c] = [orderId |-> order.id.v, field |-> field]]
           /\ editValue' = [editValue EXCEPT ![c] = value]
           /\ IF prev = Null
              THEN /\ lastOp' = Op("startEditing", c, order.id.v, arg, <<>>, "none",
                                   FALSE, FALSE)
                   /\ UNCHANGED store
              ELSE /\ store' = IF prev.orderId \in DOMAIN store
                               THEN [store EXCEPT ![prev.orderId] = MergeFields(@, data)]
                               ELSE store
                   /\ lastOp' = Op("startEditing", c, order.id.v, arg,
                                   <<[kind |-> "update", id |-> prev.orderId, data |-> data]>>,
                                   IF prev.orderId \in DOMAIN store THEN "ok" ELSE "failed",
                                   prev.orderId \notin DOMAIN store, FALSE)
           /\ UNCHANGED <<orders, confirmModal, isAdding, pendingAdd, nextId,
                   viewVars, inviteVars, gate>>

\* A click on the text of a cell: startEditing(order.id, field, value).
StartEditing(c) ==
    \E i \in 1..Len(orders[c]), field \in EditableFields :
        LET order == orders[c][i]
            value == CellValue(order, field)
        IN /\ opsLeft > 0
           /\ ~InputFocused(c)
           /\ opsLeft' = opsLeft - 1
           /\ CellTextRendered(editingCell[c], order, field)
           /\ editingCell' = [editingCell EXCEPT ![c] = [orderId |-> order.id.v, field |-> field]]
           /\ editValue' = [editValue EXCEPT ![c] = value]
           /\ lastOp' = Op("startEditing", c, order.id.v,
                           [field |-> field, value |-> value,
                            prevCell |-> editingCell[c], prevValue |-> editValue[c]],
                           <<>>, "none", FALSE, FALSE)
           /\ UNCHANGED <<store, orders, confirmModal, isAdding, pendingAdd, nextId,
                   viewVars, inviteVars, gate>>

\* onChange of the open cell's input: setEditValue(e.target.value).
ChangeEditValue(c) ==
    /\ InputFocused(c)
    /\ \E v \in (IF editingCell[c].field = "deliveryDate" THEN DateInputs ELSE EditInputs) :
        /\ v # editValue[c]
        /\ editValue' = [editValue EXCEPT ![c] = v]
        /\ lastOp' = Op("setEditValue", c, editingCell[c].orderId, Null,
                        <<>>, "none", FALSE, FALSE)
    /\ UNCHANGED opsLeft
    /\ UNCHANGED <<store, orders, editingCell, confirmModal, isAdding, pendingAdd, nextId,
                   viewVars, inviteVars, gate>>

\* onBlur of the open cell's input, or Enter in it:
\* updateOrderField(order.id, field).  The update is sent without being
\* awaited and the slot closes at once.
UpdateOrderField(c) ==
    /\ opsLeft > 0
    /\ InputFocused(c)
    /\ \E ok \in BOOLEAN :
        UpdateOrder(c, "updateOrderField", editingCell[c].orderId,
                    [field |-> editingCell[c].field, value |-> editValue[c]],
                    UpdateOrderFieldData(editingCell[c].field, editValue[c]), ok)
    /\ editingCell' = [editingCell EXCEPT ![c] = Null]
    /\ opsLeft' = opsLeft - 1
    /\ UNCHANGED <<orders, editValue, confirmModal, isAdding, pendingAdd, nextId,
                   viewVars, inviteVars, gate>>

\* Escape in the open cell's input: setEditingCell(null).
CancelEditing(c) ==
    /\ opsLeft > 0
    /\ InputFocused(c)
    /\ editingCell' = [editingCell EXCEPT ![c] = Null]
    /\ lastOp' = Op("cancelEditing", c, editingCell[c].orderId, Null,
                    <<>>, "none", FALSE, FALSE)
    /\ opsLeft' = opsLeft - 1
    /\ UNCHANGED <<store, orders, editValue, confirmModal, isAdding, pendingAdd, nextId,
                   viewVars, inviteVars, gate>>

\* A delete button that deletes the order at once, without a confirmation.
HandleDeleteClick_DeletesAtOnce(c) ==
    \E i \in 1..Len(orders[c]) :
        LET order == orders[c][i]
        IN /\ opsLeft > 0
           /\ ~InputFocused(c)
           /\ opsLeft' = opsLeft - 1
           /\ store' = RemoveDoc(store, order.id.v)
           /\ lastOp' = [Op("handleDeleteClick", c, order.id.v, Null,
                              <<[kind |-> "delete", id |-> order.id.v, data |-> Null]>>,
                              "ok", FALSE, FALSE)
                           EXCEPT !.before = DocOrNull(store, order.id.v)]
           /\ UNCHANGED <<orders, editingCell, editValue, confirmModal, isAdding,
                          pendingAdd, nextId, viewVars, inviteVars, gate>>

\* The delete button of a row:
\* handleDeleteClick(order.id, order.orderNumber || order.clientName).
HandleDeleteClick(c) ==
    \E i \in 1..Len(orders[c]) :
        LET order == orders[c][i]
            label == Or(Get(order, "orderNumber"), Get(order, "clientName"))
        IN /\ opsLeft > 0
           /\ ~InputFocused(c)
           /\ opsLeft' = opsLeft - 1
           /\ confirmModal' = [confirmModal EXCEPT ![c] =
                                 [orderId |-> order.id.v, message |-> String(label)]]
           /\ lastOp' = Op("handleDeleteClick", c, order.id.v, Null,
                           <<>>, "none", FALSE, FALSE)
           /\ UNCHANGED <<store, orders, editingCell, editValue, isAdding, pendingAdd, nextId,
                   viewVars, inviteVars, gate>>

\* onConfirm of the pending confirmation: deleteOrder(orderId), whose
\* rejection is caught and logged, then setConfirmModal(null).
ConfirmDelete(c) ==
    /\ opsLeft > 0
    /\ ~InputFocused(c)
    /\ confirmModal[c] # Null
    /\ \E ok \in BOOLEAN :
        LET id == confirmModal[c].orderId
        IN /\ store' = IF ok THEN RemoveDoc(store, id) ELSE store
           /\ lastOp' = [Op("deleteOrder", c, id, Null,
                              <<[kind |-> "delete", id |-> id, data |-> Null]>>,
                              IF ok THEN "ok" ELSE "failed", ~ok, FALSE)
                           EXCEPT !.before = DocOrNull(store, id)]
    /\ confirmModal' = [confirmModal EXCEPT ![c] = Null]
    /\ opsLeft' = opsLeft - 1
    /\ UNCHANGED <<orders, editingCell, editValue, isAdding, pendingAdd, nextId,
                   viewVars, inviteVars, gate>>

\* onCancel of the pending confirmation: setConfirmModal(null).
CancelDelete(c) ==
    /\ opsLeft > 0
    /\ ~InputFocused(c)
    /\ confirmModal[c] # Null
    /\ confirmModal' = [confirmModal EXCEPT ![c] = Null]
    /\ lastOp' = Op("cancelDelete", c, confirmModal[c].orderId, Null,
                    <<>>, "none", FALSE, FALSE)
    /\ opsLeft' = opsLeft - 1
    /\ UNCHANGED <<store, orders, editingCell, editValue, isAdding, pendingAdd, nextId,
                   viewVars, inviteVars, gate>>

-----------------------------------------------------------------------------
(* The auth gate: the App component *)

MaxAuthEvents == 2

\* E-mail addresses of the people who sign in or register.
Emails == {"a@x.cz", "b@x.cz"}

\* The FirebaseUser of a session.
FirebaseUser(email) == [email |-> email]
Sessions == {Null} \cup {FirebaseUser(email) : email \in Emails}

\* What App renders: the loading screen, the error screen, LoginPage, or the
\* board / the invite administration.
GateState(g) ==
    IF g.isLoading THEN "loading"
    ELSE IF g.firebaseError # "" THEN "error"
    ELSE IF g.user = Null \/ ~g.db THEN "unauthenticated"
    ELSE "authenticated"

\* App at its first render, before its effect has run.  auth and db are the
\* exports of the firebase module as App receives them (App tests both for
\* absence); session is the session the identity provider has persisted;
\* events are the auth-state notifications not yet delivered.
FirstRender(auth, db, session) ==
    [user |-> Null, isLoading |-> TRUE, firebaseError |-> "", isManagingUsers |-> FALSE,
     auth |-> auth, db |-> db, session |-> session, events |-> <<>>, mounted |-> FALSE]

\* The gate of a tab whose user works on the board.
GateSettled ==
    gate = [FirstRender(TRUE, TRUE, FirebaseUser("a@x.cz")) EXCEPT
              !.user = FirebaseUser("a@x.cz"), !.isLoading = FALSE, !.mounted = TRUE]

gateUnchanged == <<store, orders, editingCell, editValue, confirmModal, isAdding,
                   pendingAdd, opsLeft, nextId, viewVars, inviteVars>>

GateOp(name) ==
    Op(name, "app", "", [prev |-> GateState(gate)], <<>>, "none", FALSE, FALSE)

\* The identity provider's session becomes `session`; a subscribed App is
\* notified.
SessionBecomes(session) ==
    [gate EXCEPT !.session = session,
                 !.events = IF gate.mounted /\ gate.auth /\ session # gate.session
                            THEN Append(@, session) ELSE @]

\* App's effect: without auth, setFirebaseError and setIsLoading(false);
\* otherwise onAuthStateChanged subscribes, and the provider will report the
\* session it has.
Mount ==
    /\ ~gate.mounted
    /\ gate' = IF ~gate.auth
               THEN [gate EXCEPT !.mounted = TRUE, !.isLoading = FALSE,
                                 !.firebaseError = "Firebase neni nakonfigurovan."]
               ELSE [gate EXCEPT !.mounted = TRUE, !.events = <<gate.session>>]
    /\ lastOp' = GateOp("mount")
    /\ UNCHANGED gateUnchanged

\* The onAuthStateChanged callback: setUser(user); setIsLoading(false).
AuthStateChanged ==
    /\ gate.events # <<>>
    /\ gate' = [gate EXCEPT !.user = Head(gate.events), !.isLoading = FALSE,
                            !.events = Tail(@)]
    /\ lastOp' = GateOp("authStateChanged")
    /\ UNCHANGED gateUnchanged

\* LoginPage, which the unauthenticated gate renders, signs a user in.
SignIn ==
    /\ GateState(gate) = "unauthenticated"
    /\ gate.auth /\ gate.db
    /\ Len(gate.events) < MaxAuthEvents
    /\ \E email \in Emails :
        /\ FirebaseUser(email) # gate.session
        /\ gate' = SessionBecomes(FirebaseUser(email))
    /\ lastOp' = GateOp("signIn")
    /\ UNCHANGED gateUnchanged

\* The board's sign-out button: auth && signOut(auth).
SignOut ==
    /\ GateState(gate) = "authenticated"
    /\ ~gate.isManagingUsers
    /\ Len(gate.events) < MaxAuthEvents
    /\ gate' = IF gate.auth THEN SessionBecomes(Null) ELSE gate
    /\ lastOp' = GateOp("signOut")
    /\ UNCHANGED gateUnchanged

\* The session ends or changes outside this tab (another tab of the same
\* browser signs out or in, the provider revokes the session).
SessionChanged ==
    /\ gate.auth
    /\ Len(gate.events) < MaxAuthEvents
    /\ \E session \in Sessions :
        /\ session # gate.session
        /\ gate' = SessionBecomes(session)
    /\ lastOp' = GateOp("sessionChanged")
    /\ UNCHANGED gateUnchanged

\* A board button that drops the user while opening the administration.
ManageUsers_ClearsUser ==
    /\ GateState(gate) = "authenticated"
    /\ ~gate.isManagingUsers
    /\ gate' = [gate EXCEPT !.isManagingUsers = TRUE, !.user = Null]
    /\ lastOp' = GateOp("manageUsers")
    /\ UNCHANGED gateUnchanged

\* onManageUsers of the board: setIsManagingUsers(true).
ManageUsers ==
    /\ GateState(gate) = "authenticated"
    /\ ~gate.isManagingUsers
    /\ gate' = [gate EXCEPT !.isManagingUsers = TRUE]
    /\ lastOp' = GateOp("manageUsers")
    /\ UNCHANGED gateUnchanged

\* onBack of the invite administration: setIsManagingUsers(false).
Back ==
    /\ GateState(gate) = "authenticated"
    /\ gate.isManagingUsers
    /\ gate' = [gate EXCEPT !.isManagingUsers = FALSE]
    /\ lastOp' = GateOp("back")
    /\ UNCHANGED gateUnchanged

-----------------------------------------------------------------------------
(* The board's specification *)

\* The parts of the state the board's handlers never touch.
ViewIdle ==
    /\ sortState = [column |-> "deliveryDate", direction |-> "asc"]
    /\ searchTerm = ""
    /\ shown = <<>>

InvitesIdle ==
    /\ invites = EmptyCollection
    /\ users = {}
    /\ reg = Null
    /\ inviteList = <<>>
    /\ nextInvite = 0

Init == InitBoard /\ opsLeft = MaxOps /\ ViewIdle /\ InvitesIdle /\ GateSettled

Next ==
    \E c \in Clients :
        \/ Snapshot(c)
        \/ AddOrder(c)
        \/ AddOrderSettled(c)
        \/ ToggleUrgency(c)
        \/ TogglePrintTechnology(c)
        \/ UpdateStage(c)
        \/ StartEditing(c)
        \/ ChangeEditValue(c)
        \/ UpdateOrderField(c)
        \/ CancelEditing(c)
        \/ HandleDeleteClick(c)
        \/ ConfirmDelete(c)
        \/ CancelDelete(c)

Spec == Init /\ [][Next]_vars

-----------------------------------------------------------------------------
(* Invites and registration *)

\* Registration forms submitted, each from its own browser.
Flows == {"r1", "r2"}

\* Generated ids of invite documents.
InviteId(i) == "i" \o NatToString(i)

\* Math.random().toString(36).substring(2, 10).toUpperCase()
GeneratedCodes == {"K3F9Q2ZP", "7XW0M4TB"}

\* What a visitor types into the invite code box.
TypedCodes == {"  ", "i1", " i1 ", "K3F9Q2ZP"}

InviteIds(coll) ==
    SelectSeq([i \in 1..MaxInvites |-> InviteId(i)], LAMBDA id : id \in DOMAIN coll)

\* snapshot.docs.map(doc => ({ id: doc.id, ...doc.data() }))
FetchedInvites(coll) ==
    LET ids == InviteIds(coll)
    IN [i \in 1..Len(ids) |->
          [f \in {"id"} \cup DOMAIN coll[ids[i]] |->
              IF f = "id" THEN Str(ids[i]) ELSE coll[ids[i]][f]]]

\* The message handleAuthAction shows for a rejection with the given code.
AuthErrorMessage(code, message) ==
    CASE code = "auth/invalid-email" -> "Neplatny format e-mailu."
      [] code = "auth/user-not-found" -> "Uzivatel s timto e-mailem neexistuje."
      [] code = "auth/wrong-password" -> "Nespravne heslo."
      [] code = "auth/email-already-in-use" -> "Tento e-mail je jiz registrovan."
      [] code = "auth/weak-password" -> "Heslo musi mit alespon 6 znaku."
      [] code = "auth/invalid-invite-code" -> message
      [] OTHER -> "Nastala chyba. Zkuste to prosim znovu."

\* inviteDoc is the snapshot getDoc resolved with, once it has.
IdleFlow == [pc |-> "form", isRegistering |-> FALSE, inviteCode |-> "", email |-> "",
             ref |-> "", inviteDoc |-> Null, error |-> "", created |-> FALSE]

Failed(flow, code, message) ==
    [flow EXCEPT !.pc = "failed", !.error = AuthErrorMessage(code, message)]

\* The invites subscription of the administration page delivers a snapshot.
InvitesSnapshot ==
    /\ inviteList # FetchedInvites(invites)
    /\ inviteList' = FetchedInvites(invites)
    /\ lastOp' = Op("invitesSnapshot", "admin", "", Null, <<>>, "none", FALSE, FALSE)
    /\ UNCHANGED <<invites, users, reg, nextInvite>>
    /\ UNCHANGED <<store, orders, editingCell, editValue, confirmModal, isAdding,
                   pendingAdd, opsLeft, nextId, viewVars, gate>>

\* generateInvite: addDoc(collection(db, 'invites'), { code, createdAt }).
GenerateInvite ==
    /\ nextInvite < MaxInvites
    /\ \E code \in GeneratedCodes, ok \in BOOLEAN :
        LET data == [code |-> Str(code), createdAt |-> ServerTimestamp]
        IN /\ invites' = IF ok THEN invites @@ (InviteId(nextInvite + 1) :> Stored(data))
                         ELSE invites
           /\ nextInvite' = IF ok THEN nextInvite + 1 ELSE nextInvite
           /\ lastOp' = Op("generateInvite", "admin",
                           IF ok THEN InviteId(nextInvite + 1) ELSE "", [code |-> code],
                           <<[kind |-> "add", id |-> "", data |-> data]>>,
                           IF ok THEN "ok" ELSE "failed", ~ok, FALSE)
    /\ UNCHANGED <<users, reg, inviteList>>
    /\ UNCHANGED <<store, orders, editingCell, editValue, confirmModal, isAdding,
                   pendingAdd, opsLeft, nextId, viewVars, gate>>

\* The delete button of a listed invite: deleteInvite(invite.id).
DeleteInvite ==
    \E i \in 1..Len(inviteList), confirmed \in BOOLEAN, ok \in BOOLEAN :
        LET code == inviteList[i].id.v
        IN /\ IF ~confirmed
              THEN /\ lastOp' = Op("deleteInvite", "admin", code, Null, <<>>, "none",
                                   FALSE, FALSE)
                   /\ UNCHANGED invites
              ELSE /\ invites' = IF ok THEN RemoveDoc(invites, code) ELSE invites
                   /\ lastOp' = [Op("deleteInvite", "admin", code, Null,
                                      <<[kind |-> "delete", id |-> code, data |-> Null]>>,
                                      IF ok THEN "ok" ELSE "failed", ~ok, ~ok)
                                   EXCEPT !.before = DocOrNull(invites, code)]
           /\ UNCHANGED <<users, reg, inviteList, nextInvite>>
           /\ UNCHANGED <<store, orders, editingCell, editValue, confirmModal, isAdding,
                          pendingAdd, opsLeft, nextId, viewVars, gate>>

regUnchanged == <<store, orders, editingCell, editValue, confirmModal, isAdding,
                  pendingAdd, opsLeft, nextId, viewVars, gate>>

RegOp(name, f, flow, sent, outcome) ==
    Op(name, f, flow.ref, Null, sent, outcome, FALSE, FALSE)

\* handleAuthAction up to its first await.  Registering: the trimmed invite
\* code must be non-empty, then getDoc(doc(db, 'invites', code.trim())) is
\* sent.  Otherwise signInWithEmailAndPassword is sent.
HandleAuthAction(f) ==
    /\ reg[f].pc = "form"
    /\ \E isRegistering \in BOOLEAN, typed \in TypedCodes, email \in Emails :
        LET inviteCode == IF isRegistering THEN typed ELSE ""
            flow == [reg[f] EXCEPT !.isRegistering = isRegistering,
                                   !.inviteCode = inviteCode, !.email = email,
                                   !.ref = IF isRegistering THEN Trim(inviteCode) ELSE ""]
            next == IF ~isRegistering THEN [flow EXCEPT !.pc = "signIn"]
                    ELSE IF ~Truthy(Str(Trim(inviteCode)))
                    THEN Failed(flow, "auth/invalid-invite-code", "Kod pozvanky je povinny.")
                    ELSE [flow EXCEPT !.pc = "getDoc"]
        IN /\ reg' = [reg EXCEPT ![f] = next]
           /\ lastOp' = RegOp("handleAuthAction", f, next, <<>>,
                              IF next.pc = "failed" THEN "failed" ELSE "pending")
    /\ UNCHANGED <<invites, users, inviteList, nextInvite, regUnchanged>>

\* A lookup whose result is not tested: registration goes on to create the
\* identity whether or not the invite exists.
GetDocSettled_IgnoresMissing(f) ==
    /\ reg[f].pc = "getDoc"
    /\ \E ok \in BOOLEAN :
        LET inviteDoc == [exists |-> reg[f].ref \in DOMAIN invites]
            next == IF ~ok THEN Failed(reg[f], "unavailable", "")
                    ELSE [reg[f] EXCEPT !.pc = "createUser", !.inviteDoc = inviteDoc]
        IN /\ reg' = [reg EXCEPT ![f] = next]
           /\ lastOp' = [RegOp("getDoc", f, next, <<>>,
                               IF next.pc = "failed" THEN "failed" ELSE "ok")
                           EXCEPT !.logged = ~ok]
    /\ UNCHANGED <<invites, users, inviteList, nextInvite, regUnchanged>>

\* getDoc settles: a missing invite is rejected as invalid or used, a
\* rejected read gets the generic message.
GetDocSettled(f) ==
    /\ reg[f].pc = "getDoc"
    /\ \E ok \in BOOLEAN :
        LET inviteDoc == [exists |-> reg[f].ref \in DOMAIN invites]
            found == [reg[f] EXCEPT !.inviteDoc = inviteDoc]
            next == IF ~ok THEN Failed(reg[f], "unavailable", "")
                    ELSE IF ~inviteDoc.exists
                    THEN Failed(found, "auth/invalid-invite-code",
                                "Tento kod pozvanky neexistuje nebo jiz byl pouzit.")
                    ELSE [found EXCEPT !.pc = "createUser"]
        IN /\ reg' = [reg EXCEPT ![f] = next]
           /\ lastOp' = [RegOp("getDoc", f, next, <<>>,
                               IF next.pc = "failed" THEN "failed" ELSE "ok")
                           EXCEPT !.logged = ~ok]
    /\ UNCHANGED <<invites, users, inviteList, nextInvite, regUnchanged>>

\* createUserWithEmailAndPassword settles: the identity exists, or the
\* provider rejects (e-mail already registered, or anything else).
CreateUserSettled(f) ==
    /\ reg[f].pc = "createUser"
    /\ \E ok \in BOOLEAN :
        LET taken == reg[f].email \in users
            next == IF taken THEN Failed(reg[f], "auth/email-already-in-use", "")
                    ELSE IF ~ok THEN Failed(reg[f], "auth/network-request-failed", "")
                    ELSE [reg[f] EXCEPT !.pc = "deleteDoc", !.created = TRUE]
        IN /\ reg' = [reg EXCEPT ![f] = next]
           /\ users' = IF next.created THEN users \cup {reg[f].email} ELSE users
           /\ lastOp' = [RegOp("createUser", f, next, <<>>,
                               IF next.pc = "failed" THEN "failed" ELSE "ok")
                           EXCEPT !.logged = ~taken /\ ~ok]
    /\ UNCHANGED <<invites, inviteList, nextInvite, regUnchanged>>

\* deleteDoc(inviteRef) settles: the invite is gone, or the rejection gets
\* the generic message while the identity stays.
DeleteDocSettled(f) ==
    /\ reg[f].pc = "deleteDoc"
    /\ \E ok \in BOOLEAN :
        LET next == IF ok THEN [reg[f] EXCEPT !.pc = "done"]
                    ELSE Failed(reg[f], "permission-denied", "")
        IN /\ reg' = [reg EXCEPT ![f] = next]
           /\ invites' = IF ok THEN RemoveDoc(invites, reg[f].ref) ELSE invites
           /\ lastOp' = [RegOp("consumeInvite", f, next,
                               <<[kind |-> "delete", id |-> reg[f].ref, data |-> Null]>>,
                               IF ok THEN "ok" ELSE "failed")
                           EXCEPT !.logged = ~ok, !.before = DocOrNull(invites, reg[f].ref)]
    /\ UNCHANGED <<users, inviteList, nextInvite, regUnchanged>>

\* signInWithEmailAndPassword settles.
SignInSettled(f) ==
    /\ reg[f].pc = "signIn"
    /\ \E ok \in BOOLEAN :
        LET next == IF reg[f].email \notin users THEN Failed(reg[f], "auth/user-not-found", "")
                    ELSE IF ~ok THEN Failed(reg[f], "auth/wrong-password", "")
                    ELSE [reg[f] EXCEPT !.pc = "done"]
        IN /\ reg' = [reg EXCEPT ![f] = next]
           /\ lastOp' = RegOp("signIn", f, next, <<>>,
                              IF next.pc = "failed" THEN "failed" ELSE "ok")
    /\ UNCHANGED <<invites, users, inviteList, nextInvite, regUnchanged>>

InitInvites ==
    /\ invites = EmptyCollection
    /\ nextInvite = 0
    /\ inviteList = <<>>
    /\ users = {}
    /\ reg = [f \in Flows |-> IdleFlow]

InitInvite ==
    /\ store = EmptyCollection /\ BoardIdle /\ opsLeft = 0
    /\ ViewIdle
    /\ InitInvites
    /\ GateSettled

NextInvite ==
    \/ InvitesSnapshot
    \/ GenerateInvite
    \/ DeleteInvite
    \/ \E f \in Flows :
        \/ HandleAuthAction(f)
        \/ GetDocSettled(f)
        \/ CreateUserSettled(f)
        \/ DeleteDocSettled(f)
        \/ SignInSettled(f)

SpecInvite == InitInvite /\ [][NextInvite]_vars

-----------------------------------------------------------------------------
(* The normalizer on records of the legacy system *)

\* Records carrying exactly the legacy fields, with the values the legacy
\* system and hand edits leave in them.
LegacyRecords ==
    {[jobId |-> j, customer |-> cu, jobName |-> jn, trackingStage |-> ts, technology |-> te] :
        j \in {Str("J1"), Num(12), Str("")},
        cu \in {Str("ACME"), Str("")},
        jn \in {Str("Flyer"), Str("")},
        ts \in {Str("print"), Str("completed"), Str("Tisk"), Num(2)},
        te \in {Arr(<<Str("offset")>>), Arr(<<Str("digital"), Num(0)>>), Arr(<<>>),
                Str("offset")}}

InitNorm ==
    /\ store \in {DocId(1) :> d : d \in LegacyRecords}
    /\ BoardIdle
    /\ opsLeft = 0
    /\ ViewIdle
    /\ InvitesIdle
    /\ GateSettled

NextNorm == \E c \in Clients : Snapshot(c)

SpecNorm == InitNorm /\ [][NextNorm]_vars

-----------------------------------------------------------------------------
(* The derived view of one client *)

\* Click on a column header: handleSort(column), and the re-render.
HandleSort ==
    \E column \in {"clientName", "deliveryDate"} \cup SeqToSet(STAGE_ORDER) :
        /\ sortState' = HandleSortState(sortState, column)
        /\ shown' \in FilteredAndSortedOrders(orders[Viewer], searchTerm, sortState')
        /\ lastOp' = Op("handleSort", Viewer, "", [column |-> column], <<>>, "none",
                        FALSE, FALSE)
        /\ UNCHANGED <<searchTerm, store, orders, editingCell, editValue, confirmModal,
                       isAdding, pendingAdd, opsLeft, nextId, inviteVars, gate>>

SearchTerms == {"", "Offset"}

\* onChange of the search box: setSearchTerm(e.target.value), and the
\* re-render.
SetSearchTerm ==
    \E term \in SearchTerms :
        /\ term # searchTerm
        /\ searchTerm' = term
        /\ shown' \in FilteredAndSortedOrders(orders[Viewer], term, sortState)
        /\ lastOp' = Op("setSearchTerm", Viewer, "", [term |-> term], <<>>, "none",
                        FALSE, FALSE)
        /\ UNCHANGED <<sortState, store, orders, editingCell, editValue, confirmModal,
                       isAdding, pendingAdd, opsLeft, nextId, inviteVars, gate>>

ViewDoc(number, client, date, stage, completed, urgent, tech) ==
    [orderNumber  |-> Str(number),
     clientName   |-> Str(client),
     deliveryDate |-> Str(date),
     currentStage |-> Str(stage),
     isCompleted  |-> Bool(completed),
     isUrgent     |-> Bool(urgent),
     printType    |-> Arr(<<Str(tech)>>),
     notes        |-> Str(""),
     createdAt    |-> ServerTime]

\* Orders as the board's handlers leave them, and a record of the legacy
\* system.
ViewDocs ==
    {ViewDoc("1", "Alfa", "2024-05-10", "studio", FALSE, FALSE, TECH_DIGITAL),
     ViewDoc("2", "chata", "2024-05-11", "completed", TRUE, FALSE, TECH_OFFSET),
     ViewDoc("3", "Beta", "2024-05-12", "print", FALSE, TRUE, TECH_OFFSET),
     ViewDoc("4", "Hana", "", "bookbinding", FALSE, FALSE, TECH_DIGITAL),
     LegacyDoc}

\* The collections of up to MaxViewOrders of these documents, in any order
\* of their generated ids.
ViewStores ==
    UNION {{coll \in [{DocId(i) : i \in 1..n} -> ViewDocs] :
              \A i, j \in DOMAIN coll : i # j => coll[i] # coll[j]} : n \in 0..MaxViewOrders}

InitView ==
    /\ store \in ViewStores
    /\ BoardIdle
    /\ opsLeft = 0
    /\ ViewIdle
    /\ InvitesIdle
    /\ GateSettled

NextView ==
    \/ Snapshot(Viewer)
    \/ HandleSort
    \/ SetSearchTerm

SpecView == InitView /\ [][NextView]_vars

\* The inline editor beside deletions: one client opens cells, types,
\* commits and cancels while the other deletes orders, and snapshots arrive.
Editor == "c1"
Deleter == "c2"

InitEdit ==
    /\ store = (DocId(1) :> CanonicalDoc) @@ (DocId(2) :> LegacyDoc)
    /\ BoardIdle
    /\ opsLeft = MaxEditOps
    /\ ViewIdle
    /\ InvitesIdle
    /\ GateSettled

NextEdit ==
    \/ \E c \in Clients : Snapshot(c)
    \/ StartEditing(Editor)
    \/ ChangeEditValue(Editor)
    \/ UpdateOrderField(Editor)
    \/ CancelEditing(Editor)
    \/ HandleDeleteClick(Deleter)
    \/ ConfirmDelete(Deleter)
    \/ CancelDelete(Deleter)

SpecEdit == InitEdit /\ [][NextEdit]_vars

-----------------------------------------------------------------------------
(* Properties of the board *)

IsBlank(text) == \A i \in 1..Len(text) : SubSeq(text, i, i) \in {" ", "\t"}

\* C1: in every client's canonical order collection, isCompleted is true
\* exactly when currentStage is completed.
C1_IsCompletedIffStageCompleted ==
    \A c \in Clients : \A i \in 1..Len(orders[c]) :
        (Get(orders[c][i], "isCompleted") = Bool(TRUE))
            <=> (orders[c][i].currentStage = Str("completed"))

\* C2: every persisted order that has a printType has a non-empty one, every
\* order a client created has one, and togglePrintTechnology on the only
\* remaining tag of the cached order sends no update.
C2_PrintTypeNeverEmpty ==
    /\ \A id \in DOMAIN store :
        /\ "printType" \in DOMAIN store[id] =>
              /\ store[id].printType.t = "array"
              /\ Len(store[id].printType.v) > 0
        /\ "createdAt" \in DOMAIN store[id] => "printType" \in DOMAIN store[id]
    /\ (lastOp.op = "togglePrintTechnology"
          /\ lastOp.arg.currentTypes.v = <<Str(lastOp.arg.tech)>>)
        => lastOp.sent = <<>>

\* A client whose cached copy still shows both tags removes the tag that, in
\* the store, is the only one left.
C2_StaleToggleApplied ==
    /\ lastOp.op = "togglePrintTechnology"
    /\ lastOp.outcome = "ok"
    /\ lastOp.arg.tech = TECH_OFFSET
    /\ lastOp.arg.currentTypes.v = <<Str(TECH_DIGITAL), Str(TECH_OFFSET)>>
    /\ lastOp.before.printType.v = <<Str(TECH_OFFSET)>>

\* C3: updateStage sends one partial update; for completed it is exactly
\* {currentStage: completed, isCompleted: true, isUrgent: false}, for any
\* other stage exactly {currentStage: stage, isCompleted: false}; the stored
\* record takes these fields and keeps every other field as it was.
C3_UpdateStageUpdate ==
    lastOp.op = "updateStage" =>
        LET data == lastOp.sent[1].data
        IN /\ Len(lastOp.sent) = 1
           /\ lastOp.sent[1].kind = "update"
           /\ lastOp.sent[1].id = lastOp.id
           /\ IF lastOp.arg.stage = "completed"
              THEN /\ DOMAIN data = {"currentStage", "isCompleted", "isUrgent"}
                   /\ data.currentStage = Str("completed")
                   /\ data.isCompleted = Bool(TRUE)
                   /\ data.isUrgent = Bool(FALSE)
              ELSE /\ DOMAIN data = {"currentStage", "isCompleted"}
                   /\ data.currentStage = Str(lastOp.arg.stage)
                   /\ data.isCompleted = Bool(FALSE)
           /\ lastOp.outcome = "ok" =>
                LET doc == store[lastOp.id]
                IN /\ DOMAIN doc = DOMAIN lastOp.before \cup DOMAIN data
                   /\ \A f \in DOMAIN data : doc[f] = data[f]
                   /\ \A f \in DOMAIN lastOp.before \ DOMAIN data :
                        doc[f] = lastOp.before[f]
                   /\ lastOp.arg.stage = "completed" =>
                        doc.isUrgent = Bool(FALSE) /\ doc.isCompleted = Bool(TRUE)

\* An urgent order has been set to completed.
C3_UrgentOrderCompleted ==
    /\ lastOp.op = "updateStage"
    /\ lastOp.outcome = "ok"
    /\ lastOp.arg.stage = "completed"
    /\ Get(lastOp.before, "isUrgent") = Bool(TRUE)
    /\ store[lastOp.id].isUrgent = Bool(FALSE)

\* C6: no stored orderNumber or clientName is blank; addOrder with a blank
\* order number or client name sends no write; updateOrderField on either
\* field with a blank scratch value sends no write.
C6_NamesNeverBlank ==
    /\ \A id \in DOMAIN store : \A f \in {"orderNumber", "clientName"} :
        f \in DOMAIN store[id] =>
            store[id][f].t = "string" /\ ~IsBlank(store[id][f].v)
    /\ (lastOp.op = "addOrder"
          /\ (IsBlank(lastOp.arg.newOrderNumber) \/ IsBlank(lastOp.arg.newClientName)))
        => lastOp.sent = <<>>
    /\ (lastOp.op = "updateOrderField"
          /\ lastOp.arg.field \in {"orderNumber", "clientName"}
          /\ IsBlank(lastOp.arg.value))
        => lastOp.sent = <<>> /\ lastOp.outcome = "none"

\* A client's order was created, and later an inline edit of its client name
\* with a whitespace-only scratch value was committed.
C6_BlankEditCommitted ==
    /\ lastOp.op = "updateOrderField"
    /\ lastOp.arg.field = "clientName"
    /\ lastOp.arg.value = "  "
    /\ editingCell[lastOp.client] = Null

\* C9: a failed order creation, order deletion or invite deletion is logged
\* and alerted; a failed inline-edit update is logged and not alerted.
C9_FailedWritesSurfaced ==
    /\ (lastOp.outcome = "failed"
          /\ lastOp.op \in {"addOrderSettled", "deleteOrder", "deleteInvite"})
        => lastOp.logged /\ lastOp.alerted
    /\ (lastOp.outcome = "failed" /\ lastOp.op = "updateOrderField")
        => lastOp.logged /\ ~lastOp.alerted

\* The text a canonical order shows in a cell.
FieldText(order, field) ==
    IF field \in DOMAIN order /\ order[field].t = "string" THEN order[field].v ELSE ""

-----------------------------------------------------------------------------
(* Properties of invites and registration *)

\* C4: for every invite code, at most one registration that used that code
\* has created an identity.
C4_InviteSingleUse ==
    \A f, g \in Flows :
        (reg[f].created /\ reg[g].created /\ reg[f].ref = reg[g].ref) => f = g

-----------------------------------------------------------------------------
(* Properties of the normalizer *)

\* What the fallback mapping makes of a legacy-only record.
FromLegacy(order, raw) ==
    /\ order.orderNumber =
          Str(IF Truthy(raw.jobId) THEN String(raw.jobId) ELSE "???")
    /\ order.clientName =
          Str(IF ~Truthy(raw.customer) THEN "???"
              ELSE IF Truthy(raw.jobName)
                   THEN String(raw.customer) \o " / " \o String(raw.jobName)
                   ELSE String(raw.customer))
    /\ order.currentStage =
          Str(IF Truthy(raw.trackingStage) THEN String(raw.trackingStage) ELSE "studio")
    /\ order.printType.t = "array"
    /\ Len(order.printType.v) = Len(raw.technology.v)
    /\ \A k \in 1..Len(raw.technology.v) :
          order.printType.v[k] =
              Str(IF Truthy(raw.technology.v[k]) THEN String(raw.technology.v[k]) ELSE "")

\* C8 as stated: the canonical order of a legacy-only record has orderNumber,
\* clientName, currentStage and printType populated from the legacy fields
\* and carries none of the legacy field names.
C8_NoLegacyFieldLeft ==
    \A c \in Clients : \A i \in 1..Len(orders[c]) :
        LET order == orders[c][i]
            raw == store[order.id.v]
        IN DOMAIN raw = LegacyFields =>
               /\ FromLegacy(order, raw)
               /\ \A f \in LegacyFields : f \notin DOMAIN order

\* C8, amended: the canonical order of a legacy-only record has orderNumber,
\* clientName, currentStage and printType populated from the legacy fields
\* (the default where the legacy value is empty), and every legacy field is
\* still present in it with its raw value.
C8_LegacyFieldsKept ==
    \A c \in Clients : \A i \in 1..Len(orders[c]) :
        LET order == orders[c][i]
            raw == store[order.id.v]
        IN DOMAIN raw = LegacyFields =>
               /\ FromLegacy(order, raw)
               /\ \A f \in LegacyFields : f \in DOMAIN order /\ order[f] = raw[f]
               /\ DOMAIN order = LegacyFields \cup NormalizedFields

\* A legacy record with a numeric job id and both customer and job name has
\* been normalized.
C8_LegacyRecordNormalized ==
    \E c \in Clients : \E i \in 1..Len(orders[c]) :
        /\ DOMAIN store[orders[c][i].id.v] = LegacyFields
        /\ orders[c][i].orderNumber = Str("12")
        /\ orders[c][i].clientName = Str("ACME / Flyer")
        /\ orders[c][i].currentStage = Str("completed")
        /\ orders[c][i].printType = Arr(<<Str("digital"), Str("")>>)

-----------------------------------------------------------------------------
(* Properties of the derived view *)

IsOpen(order) == ~Truthy(Get(order, "isCompleted"))
IsUrgent(order) == Truthy(Get(order, "isUrgent"))

\* C5: in the rendered sequence, whatever the order set, the sort column and
\* the direction, every urgent non-completed order appears before every
\* non-urgent non-completed order.
C5_UrgentOpenFirst ==
    \A i, j \in 1..Len(shown) :
        (/\ IsOpen(shown[i]) /\ IsUrgent(shown[i])
         /\ IsOpen(shown[j]) /\ ~IsUrgent(shown[j])) => i < j

\* C7 as stated: with a stage column ascending and no urgent order, every
\* order whose current stage equals the column appears before every order
\* whose current stage differs, for all four stage columns.
C7_StageOrdersFirst ==
    (/\ ArrIncludes(STAGE_ORDER, sortState.column)
     /\ sortState.direction = "asc"
     /\ \A k \in 1..Len(shown) : ~IsUrgent(shown[k]))
    => \A i, j \in 1..Len(shown) :
          (/\ shown[i].currentStage.v = sortState.column
           /\ shown[j].currentStage.v # sortState.column) => i < j

\* C7, amended: with a stage column ascending and no urgent order, for the
\* columns studio, print and bookbinding every order whose current stage
\* equals the column appears before every order whose current stage differs;
\* for the column completed every order with isCompleted set appears after
\* every order without it.
C7_StageColumnsAscending ==
    (/\ ArrIncludes(STAGE_ORDER, sortState.column)
     /\ sortState.direction = "asc"
     /\ \A k \in 1..Len(shown) : ~IsUrgent(shown[k]))
    => \A i, j \in 1..Len(shown) :
          IF sortState.column = "completed"
          THEN (IsOpen(shown[i]) /\ ~IsOpen(shown[j])) => i < j
          ELSE (/\ shown[i].currentStage.v = sortState.column
                /\ shown[j].currentStage.v # sortState.column) => i < j

\* The column bookbinding was clicked and, of three rendered rows, none
\* urgent, the order in bookbinding that the snapshot delivered last is first.
C7_StageColumnSorted ==
    /\ lastOp.op = "handleSort"
    /\ sortState = [column |-> "bookbinding", direction |-> "asc"]
    /\ Len(shown) = 3
    /\ \A k \in 1..Len(shown) : ~IsUrgent(shown[k])
    /\ shown[1].currentStage.v = "bookbinding"
    /\ shown[1].id.v = "o3"

-----------------------------------------------------------------------------
(* Properties of the inline editor *)

\* C11: updateOrderField always leaves the edit slot closed; for a field
\* other than notes whose trimmed scratch value is empty it sends nothing;
\* otherwise, and for notes whatever the scratch value, it sends exactly one
\* update of the edited order whose data holds that field alone, with the
\* scratch value as typed.
C11_CommitClosesAndSendsField ==
    lastOp.op = "updateOrderField" =>
        LET field == lastOp.arg.field
            value == lastOp.arg.value
        IN /\ editingCell[lastOp.client] = Null
           /\ IF field # "notes" /\ Trim(value) = ""
              THEN lastOp.sent = <<>> /\ lastOp.outcome = "none"
              ELSE /\ Len(lastOp.sent) = 1
                   /\ lastOp.sent[1].kind = "update"
                   /\ lastOp.sent[1].id = lastOp.id
                   /\ DOMAIN lastOp.sent[1].data = {field}
                   /\ lastOp.sent[1].data[field] = Str(value)

\* The note of an order has been committed with an empty scratch value and
\* the store has taken it.
C11_EmptyNoteCommitted ==
    /\ lastOp.op = "updateOrderField"
    /\ lastOp.arg.field = "notes"
    /\ lastOp.arg.value = ""
    /\ lastOp.outcome = "ok"
    /\ store[lastOp.id].notes = Str("")
    /\ editingCell[lastOp.client] = Null

-----------------------------------------------------------------------------
(* Properties of deletion *)

\* C12: in every step, (1) a delete is sent only by confirming the client's
\* pending confirmation, it is the delete of the order that confirmation
\* names, and the confirmation is cleared; (2) cancelling sends nothing,
\* leaves the store alone and clears the confirmation; (3) a confirmation
\* becomes pending only through handleDeleteClick, for the order of the
\* clicked row; (4) no other step removes an order or sends a delete.  Each
\* client holds one confirmation slot, so at most one is pending.
C12_DeleteOnlyAfterConfirm ==
    [][LET c == lastOp'.client
           deletes == {k \in 1..Len(lastOp'.sent) : lastOp'.sent[k].kind = "delete"}
       IN /\ lastOp'.op = "deleteOrder" =>
                /\ confirmModal[c] # Null
                /\ confirmModal[c].orderId = lastOp'.id
                /\ lastOp'.sent = <<[kind |-> "delete", id |-> lastOp'.id, data |-> Null]>>
                /\ confirmModal'[c] = Null
          /\ lastOp'.op = "cancelDelete" =>
                /\ confirmModal[c] # Null
                /\ lastOp'.sent = <<>>
                /\ store' = store
                /\ confirmModal'[c] = Null
          /\ \A x \in Clients :
                (confirmModal'[x] # confirmModal[x] /\ confirmModal'[x] # Null) =>
                    /\ lastOp'.op = "handleDeleteClick"
                    /\ x = c
                    /\ confirmModal'[x].orderId = lastOp'.id
                    /\ \E i \in 1..Len(orders[x]) : orders[x][i].id.v = lastOp'.id
          /\ lastOp'.op # "deleteOrder" =>
                /\ deletes = {}
                /\ DOMAIN store \subseteq DOMAIN store'
    ]_vars

\* A client asked to delete an order, confirmed, and the order is gone.
C12_ConfirmedDeleteApplied ==
    /\ lastOp.op = "deleteOrder"
    /\ lastOp.outcome = "ok"
    /\ lastOp.before # Null
    /\ lastOp.id \notin DOMAIN store
    /\ confirmModal[lastOp.client] = Null

-----------------------------------------------------------------------------
(* Properties of registration *)

\* C13: in every registration flow, (1) an identity has been created only
\* if the lookup of the submitted code resolved and found the invite;
\* (2) a submitted code that is empty once trimmed has failed the flow with
\* the invalid-invite message, without a lookup and without an identity;
\* (3) a lookup that found no invite has failed the flow with the
\* invalid-invite message, without an identity; (4) an invite is deleted by
\* a flow only after that flow created its identity.
C13_NoIdentityWithoutInvite ==
    /\ \A f \in Flows :
        LET flow == reg[f]
        IN /\ flow.created =>
                flow.isRegistering /\ flow.inviteDoc # Null /\ flow.inviteDoc.exists
           /\ (flow.pc # "form" /\ flow.isRegistering /\ Trim(flow.inviteCode) = "") =>
                /\ flow.pc = "failed"
                /\ flow.error = "Kod pozvanky je povinny."
                /\ flow.inviteDoc = Null
                /\ ~flow.created
           /\ (flow.inviteDoc # Null /\ ~flow.inviteDoc.exists) =>
                /\ flow.pc = "failed"
                /\ flow.error = "Tento kod pozvanky neexistuje nebo jiz byl pouzit."
                /\ ~flow.created
    /\ lastOp.op = "consumeInvite" => reg[lastOp.client].created
    /\ Cardinality(users) <= Cardinality({f \in Flows : reg[f].created})

\* With an invite in the collection, a registration that submitted a code no
\* invite is stored under has failed, and no identity exists.
C13_AbsentCodeRejected ==
    \E f \in Flows :
        /\ reg[f].isRegistering
        /\ reg[f].inviteDoc = [exists |-> FALSE]
        /\ reg[f].pc = "failed"
        /\ DOMAIN invites # {}
        /\ users = {}

\* C14: every stored invite that generateInvite created is stored under an
\* id equal to its generated code, and a lookup that resolved for a
\* submitted code equal to a stored invite's code found an invite.
C14_InviteKeyedByCode ==
    /\ \A id \in DOMAIN invites :
        "code" \in DOMAIN invites[id] => invites[id].code = Str(id)
    /\ \A f \in Flows :
        (/\ lastOp.op = "getDoc" /\ lastOp.client = f
         /\ reg[f].inviteDoc # Null
         /\ \E id \in DOMAIN invites : invites[id].code = Str(reg[f].ref))
            => reg[f].inviteDoc.exists

-----------------------------------------------------------------------------
(* The auth gate's specification and properties *)

InitGate ==
    /\ store = EmptyCollection /\ BoardIdle /\ opsLeft = 0
    /\ ViewIdle
    /\ InvitesIdle
    /\ \E auth \in BOOLEAN, db \in BOOLEAN, session \in Sessions :
         gate = FirstRender(auth, db, IF auth THEN session ELSE Null)

NextGate ==
    \/ Mount
    \/ AuthStateChanged
    \/ SignIn
    \/ SignOut
    \/ SessionChanged
    \/ ManageUsers
    \/ Back

SpecGate == InitGate /\ [][NextGate]_vars

\* C15: App renders the loading screen until its effect has run; a step
\* that leaves loading goes to error exactly when auth is missing, to
\* unauthenticated only by an auth-state callback that reported no user (or
\* without a store), to authenticated only by one that reported a user; no
\* step leaves error; in authenticated, the callback that reports the
\* sign-out leads to unauthenticated, and the sign-out button ends the
\* session and has that callback queued; manageUsers and back start and end
\* in authenticated.
C15_AuthGateTransitions ==
    [][LET s == GateState(gate)
           t == GateState(gate')
       IN /\ ~gate.mounted => s = "loading"
          /\ (s = "loading" /\ t # "loading") =>
                /\ t \in {"error", "unauthenticated", "authenticated"}
                /\ t = "error" <=> ~gate.auth
                /\ t = "unauthenticated" =>
                      lastOp'.op = "authStateChanged" /\ (gate'.user = Null \/ ~gate.db)
                /\ t = "authenticated" =>
                      lastOp'.op = "authStateChanged" /\ gate'.user # Null
          /\ s = "error" => t = "error"
          /\ (s = "authenticated" /\ lastOp'.op = "authStateChanged" /\ gate'.user = Null)
                => t = "unauthenticated"
          /\ (s = "authenticated" /\ lastOp'.op = "signOut") =>
                /\ gate'.session = Null
                /\ gate'.events # <<>>
                /\ gate'.events[Len(gate'.events)] = Null
          /\ lastOp'.op \in {"manageUsers", "back"} =>
                s = "authenticated" /\ t = "authenticated"
    ]_vars

\* A user who was signed in and saw the board or the administration has
\* been signed out, and the gate shows LoginPage.
C15_SignedOutToLogin ==
    /\ lastOp.op = "authStateChanged"
    /\ lastOp.arg.prev = "authenticated"
    /\ GateState(gate) = "unauthenticated"
    /\ gate.session = Null
    /\ gate.db

-----------------------------------------------------------------------------
(* Properties of urgency *)

\* C16: after every toggleUrgency whose update the store applied, the
\* stored isUrgent is the negation of the isUrgent stored just before that
\* write.
C16_ToggleFlipsStored ==
    (lastOp.op = "toggleUrgency" /\ lastOp.outcome = "ok") =>
        store[lastOp.id].isUrgent = Not(Get(lastOp.before, "isUrgent"))

-----------------------------------------------------------------------------
(* Properties of the cached projection *)

\* C17: a step changes a client's cached order collection only if it is the
\* delivery of a snapshot to that client; addOrder and its settling, the
\* stage, urgency and technology buttons, startEditing, the commit and the
\* cancel of an inline edit, and the delete with its confirmation all leave
\* every cache as it was, whether their write succeeded or failed.
C17_CacheChangesOnlyBySnapshot ==
    [][\A c \in Clients :
          orders'[c] # orders[c] =>
              /\ lastOp'.op = "snapshot"
              /\ lastOp'.client = c
              /\ orders'[c] = ParsedOrders(store)
    ]_vars

\* An updateStage of a client has been applied by the store, and that
\* client's cache still shows the order as it was.
C17_WriteAppliedCacheStale ==
    /\ lastOp.op = "updateStage"
    /\ lastOp.outcome = "ok"
    /\ store[lastOp.id] # lastOp.before
    /\ orders[lastOp.client] # ParsedOrders(store)
    /\ orders[lastOp.client] = ParsedOrders([store EXCEPT ![lastOp.id] = lastOp.before])

-----------------------------------------------------------------------------
(* Properties of the normalized stage *)

\* C18: in every client's canonical order collection, currentStage is a
\* string that is one of studio, print, bookbinding, completed.
C18_StageInEnum ==
    \A c \in Clients : \A i \in 1..Len(orders[c]) :
        /\ orders[c][i].currentStage.t = "string"
        /\ orders[c][i].currentStage.v \in Stages

\* C19: no stored order is both completed and urgent.
C19_CompletedNeverUrgent ==
    \A id \in DOMAIN store :
        ~(/\ Get(store[id], "isCompleted") = Bool(TRUE)
          /\ Get(store[id], "isUrgent") = Bool(TRUE))

-----------------------------------------------------------------------------
(* Properties of the comparator *)

\* C20: over the orders the board holds and under the sort state it is in,
\* applySorting's comparator is antisymmetric (a before b means b after a)
\* and transitive (a before b and b before c mean a before c).
C20_ComparatorConsistent ==
    LET data == orders[Viewer]
        before(i, j) == CallCompare(data[i], data[j], sortState) < 0
        after(i, j) == CallCompare(data[i], data[j], sortState) > 0
    IN \A i, j, k \in 1..Len(data) :
          /\ before(i, j) => after(j, i)
          /\ (before(i, j) /\ before(j, k)) => before(i, k)

=============================================================================
